---- MODULE Spec2Model ----
(***************************************************************************)
(* Model of the Twitter-list RSS plugin (src/src/plugin.ts): the           *)
(* TwitterRSSService (authentication, scheduler, processAllLists pass,     *)
(* dedup set and its snapshot file, feed file), plugin.init and the        *)
(* configuration lookup getConfig.                                         *)
(*                                                                         *)
(* A pass (one call of processAllLists) is a process whose pc is the await *)
(* at which the call is suspended.  Code between two awaits on real I/O    *)
(* runs as one step of the Node event loop, so it is one action.           *)
(***************************************************************************)
EXTENDS Integers, Sequences, FiniteSets, TLC

VARIABLES
  phase,              \* the process and TwitterRSSService.start: "loaded",
                      \* "configured", "login", "hydrating", "started" once
                      \* start has returned, "exited"
  authOutcome,        \* history: how the authentication of this lifetime ended
  lives,              \* number of process lifetimes begun so far
  env,                \* process.env as configured by the operator (.env file)
  runtimeSees,        \* does runtime.getSetting(key) return the env strings (else null)
  schemaValid,        \* does the configuration pass configSchema
  pluginConfig,       \* plugin.config
  upstream,           \* what the scraper returns: list responses and tweet details (unchanged in a run)
  isLoggedIn,         \* TwitterRSSService.isLoggedIn
  schedulerInterval,  \* TwitterRSSService.schedulerInterval is set (TRUE) or null
  warmupPending,      \* the one-shot setTimeout(…, 5000) has not fired yet
  processedTweetIds,  \* TwitterRSSService.processedTweetIds
  snapshot,           \* processed_tweets.json: [exists, ids]
  feedFile,           \* twitter_lists.xml: [exists, items]
  passes,             \* the calls of processAllLists in flight, by slot
  stopPc,             \* position of stop(): "no", "mkdir", "write", "done"
  stopSnap,           \* the array stop() is writing
  accumulated,        \* history: identifiers accumulated by passes of this lifetime
  reaccumulated,      \* history: identifiers accumulated by a second pass
  published,          \* history: identifiers that were in a persisted feed document
  cleanDone,          \* history: a pass of this lifetime has returned
  disk,               \* the output directory: "ok", or the writes that fail
  apiToken,           \* RSSServerService.apiToken ("" when RSS_API_TOKEN is unset)
  req,                \* the HTTP request the server is handling, its response
  sample,             \* an item put through transformToRSSItem and applyFilters
  act                 \* the action handler or provider call under way, its outcome

\* what a run fixes: the configuration and the surroundings of the process
world == << env, runtimeSees, schemaValid, upstream, disk, apiToken, sample >>

vars == << phase, authOutcome, lives, env, runtimeSees, schemaValid, pluginConfig, upstream, isLoggedIn,
           schedulerInterval, warmupPending, processedTweetIds, snapshot,
           feedFile, passes, stopPc, stopSnap, accumulated, reaccumulated,
           published, cleanDone, disk, apiToken, req, sample, act >>

----------------------------------------------------------------------------
(* Bounds *)

MaxLives == 2          \* process lifetimes
MaxBody == 102         \* characters of an item's text

PassIds == {"p1", "p2"}     \* concurrent calls of processAllLists
NoId == ""                  \* a raw tweet without an id

\* this.twitterLists, in configured order (initializeLists)
twitterLists == << "A", "B" >>
ListIds == {twitterLists[i] : i \in 1..Len(twitterLists)}

----------------------------------------------------------------------------
(* Raw tweets as the scraper returns them (RawTweetData) *)

Raw(id, ts, reply, rt, len, thread) ==
  [id |-> id, timestamp |-> ts, isReply |-> reply, isRetweet |-> rt,
   len |-> len, thread |-> thread]

r0 == Raw(NoId, 3, FALSE, FALSE, 20, << >>)
r1 == Raw("1", 3, FALSE, FALSE, 20, << >>)
r2 == Raw("2", 2, TRUE, FALSE, 20, << >>)
r3 == Raw("3", 3, FALSE, TRUE, 20, << >>)
r4 == Raw("4", 1, FALSE, FALSE, 5, << >>)

Ids == {"1", "2", "3", "4"}

\* Upstream scenarios: resp[l] is the answer of scraper.fetchListTweets(l),
\* down the lists whose fetch throws, detail the answer of scraper.getTweet:
\* "thread" a thread, "bad" a thread with an entry without id, "none" no
\* thread array, "throw" a failure.
Up(a, b, down, detail) ==
  [resp |-> [l \in ListIds |-> IF l = "A" THEN a ELSE b],
   down |-> down, detail |-> detail]

UpA3Bdown == Up(<< r2, r1, r3 >>, << >>, {"B"}, "none")
UpTies == Up(<< r2, r1 >>, << r3, r4, r1 >>, {}, "thread")
UpNoId == Up(<< r0, r1, r1 >>, << r2 >>, {}, "throw")
UpBadThread == Up(<< r4, r3 >>, << r1 >>, {"A"}, "bad")

----------------------------------------------------------------------------
(* Configuration: plugin.config, plugin.init, getConfig *)

\* A configured value is a string or, after plugin.init, what the zod
\* transform made of it: Str(v) is the string v, Bool(b) the boolean b.
Str(v) == [type |-> "string", val |-> v]
Bool(b) == [type |-> "boolean", val |-> IF b THEN "true" ELSE "false"]

FlagKeys == {"FILTER_RETWEETS", "FILTER_REPLIES", "FETCH_TWEET_THREADS"}

\* The operator's .env: flags as "true"/"false", numbers as parsed by parseInt
Env(rt, re, th, min, max) ==
  [FILTER_RETWEETS |-> rt, FILTER_REPLIES |-> re, FETCH_TWEET_THREADS |-> th,
   MIN_TWEET_LENGTH |-> min, MAX_RSS_ENTRIES |-> max]

EnvPlain == Env("false", "false", "false", 10, 500)
EnvFilters == Env("true", "true", "false", 10, 500)
EnvThreads == Env("false", "false", "true", 0, 2)
EnvCap == Env("false", "true", "false", 10, 2)
EnvCapZero == Env("false", "false", "false", 10, 0)

\* The runs: the operator's .env, whether runtime.getSetting sees it, and
\* the upstream content
Run(e, sees, valid, up, dsk) ==
  [env |-> e, runtimeSees |-> sees, schemaValid |-> valid, upstream |-> up,
   disk |-> dsk]

Runs ==
  { Run(EnvPlain, FALSE, TRUE, UpA3Bdown, "ok"),
    Run(EnvPlain, TRUE, TRUE, UpNoId, "ok"),
    Run(EnvPlain, FALSE, FALSE, UpTies, "feedFails"),
    Run(EnvPlain, TRUE, TRUE, UpTies, "idsFail"),
    Run(EnvFilters, TRUE, TRUE, UpTies, "ok"),
    Run(EnvFilters, FALSE, FALSE, UpA3Bdown, "ok"),
    Run(EnvFilters, FALSE, TRUE, UpA3Bdown, "ok"),
    Run(EnvThreads, TRUE, TRUE, UpTies, "ok"),
    Run(EnvThreads, TRUE, FALSE, UpBadThread, "ok"),
    Run(EnvThreads, FALSE, FALSE, UpNoId, "ok"),
    Run(EnvCap, FALSE, FALSE, UpTies, "ok"),
    Run(EnvCap, TRUE, TRUE, UpA3Bdown, "feedFails"),
    Run(EnvCapZero, TRUE, TRUE, UpA3Bdown, "ok"),
    Run(EnvThreads, FALSE, TRUE, UpTies, "ok") }

\* the deployments in which the server is exercised
HttpRuns ==
  { Run(EnvPlain, FALSE, TRUE, UpA3Bdown, "ok"),
    Run(EnvThreads, TRUE, TRUE, UpTies, "ok"),
    Run(EnvCap, TRUE, TRUE, UpA3Bdown, "feedFails") }

\* the deployments in which the scheduler runs on its own
LiveRuns ==
  { Run(EnvPlain, TRUE, TRUE, UpTies, "idsFail"),
    Run(EnvThreads, TRUE, FALSE, UpBadThread, "ok"),
    Run(EnvCap, TRUE, TRUE, UpA3Bdown, "feedFails") }

\* plugin.config as the module sets it when loaded: strings from process.env
LoadedConfig(e) == [k \in FlagKeys |-> Str(e[k])]

\* configSchema: .transform((val) => val === 'true') on the three flags
configSchema(cfg) == [k \in FlagKeys |-> Bool(cfg[k] = Str("true"))]

\* getConfig(key): runtime.getSetting(key) ?? plugin.config[key] ?? process.env[key]
getConfig(key) ==
  IF runtimeSees THEN Str(env[key]) ELSE pluginConfig[key]

\* getConfig(key) === 'true'
IsStringTrue(key) == getConfig(key) = Str("true")

minLength == env.MIN_TWEET_LENGTH
maxEntries == env.MAX_RSS_ENTRIES

----------------------------------------------------------------------------
(* Normalizer, filter chain, sort and cap *)

\* transformTweet: throws when the tweet or an entry of its thread has no id
TransformThrows(raw) ==
  raw.id = NoId \/ \E i \in 1..Len(raw.thread) : raw.thread[i] = NoId

transformTweet(raw, l) ==
  [id |-> raw.id, createdAt |-> raw.timestamp, isReply |-> raw.isReply,
   isRetweet |-> raw.isRetweet, len |-> raw.len, thread |-> raw.thread,
   list |-> l]

applyFilters(tweet) ==
  IF IsStringTrue("FILTER_RETWEETS") /\ tweet.isRetweet THEN FALSE
  ELSE IF IsStringTrue("FILTER_REPLIES") /\ tweet.isReply THEN FALSE
  ELSE IF tweet.len < minLength THEN FALSE
  ELSE TRUE

UnseenWithoutId(resp, seen) == SelectSeq(resp, LAMBDA t : t.id \notin seen)

\* the dedup gate of fetchListTweets
Unseen(resp, seen) ==
  SelectSeq(resp, LAMBDA t : t.id # NoId /\ t.id \notin seen)

RECURSIVE MapTransform(_, _)
MapTransform(raws, l) ==
  IF raws = << >> THEN << >>
  ELSE << transformTweet(Head(raws), l) >> \o MapTransform(Tail(raws), l)

\* filtered.map(transformTweet) throws
MapThrows(raws) == \E i \in 1..Len(raws) : TransformThrows(raws[i])

\* filtered.map(transformTweet).filter(applyFilters)
Survivors(raws, l) == SelectSeq(MapTransform(raws, l), applyFilters)

IdsOf(tweets) == {tweets[i].id : i \in 1..Len(tweets)}

\* Array.prototype.sort with (a, b) => b.createdAt - a.createdAt: a stable
\* sort, descending by createdAt
RECURSIVE InsertDesc(_, _)
InsertDesc(sorted, x) ==
  IF sorted = << >> THEN << x >>
  ELSE IF Head(sorted).createdAt >= x.createdAt
       THEN << Head(sorted) >> \o InsertDesc(Tail(sorted), x)
       ELSE << x >> \o sorted

SortNot(s) == s

\* (the sorted front is bound once, then the last element is inserted)
RECURSIVE SortDesc(_)
SortDesc(s) ==
  IF s = << >> THEN << >>
  ELSE CHOOSE r \in {InsertDesc(front, s[Len(s)]) :
                      front \in {SortDesc(SubSeq(s, 1, Len(s) - 1))}} : TRUE

\* allTweets.slice(0, maxEntries)
Slice(s, k) == SubSeq(s, 1, IF k < Len(s) THEN k ELSE Len(s))

----------------------------------------------------------------------------
(* Passes *)

IdlePass ==
  [pc |-> "idle", idx |-> 0, filtered |-> << >>, j |-> 0,
   allTweets |-> << >>, doc |-> << >>, snap |-> {}, failed |-> {},
   fetched |-> {},
   reason |-> "none", afterClean |-> FALSE]

\* a call takes the first free slot
SlotBefore(q, p) == q = "p1" /\ p = "p2"

InFlightPcs == {"fetch", "thread", "saveFeed", "saveIds", "writeIds"}
InFlight(p) == passes[p].pc \in InFlightPcs
Alive == phase # "exited"

RegisteredEarly == phase \in {"hydrating", "started"}

\* start has returned: the runtime holds the service, so that the routes,
\* the actions and TwitterRSSService.stop(runtime) reach it
Registered == phase = "started"

\* the aggregator's states Ready and Disabled
Ready == Registered /\ authOutcome = "true"
Disabled == Registered /\ authOutcome # "true"

AuthNotChecked == FALSE

\* processAllLists, line 527: if (!this.isLoggedIn) throw
AuthRequired == ~isLoggedIn

MarkNothing(seen, tweets) == seen

MarkOnlyNew(seen, tweets) == IdsOf(tweets)

\* tweets.forEach((tweet) => this.processedTweetIds.add(tweet.id))
MarkProcessed(seen, tweets) == seen \cup IdsOf(tweets)

AfterListAgain(pass) == [pass EXCEPT !.pc = "fetch"]

\* The 2 s delay after a list changes nothing but the time, so the turn that
\* ends at it goes on to what follows it: the call of fetchListTweets for
\* the next list, or after the last list sort, cap, generateRSSFeed and the
\* call of saveRSSFeed
AfterList(pass) ==
  IF pass.idx < Len(twitterLists)
  THEN [pass EXCEPT !.idx = @ + 1, !.pc = "fetch"]
  ELSE [pass EXCEPT !.doc = Slice(SortDesc(pass.allTweets), maxEntries),
                    !.pc = "saveFeed"]

\* fetchListTweets returned tweets: allTweets.push(...tweets) and the
\* marking of their ids
Accumulate(p, l, tweets) ==
  /\ passes' = [passes EXCEPT ![p] =
       AfterList([@ EXCEPT !.allTweets = @ \o tweets, !.filtered = << >>,
                           !.j = 0, !.fetched = @ \cup {l}])]
  /\ processedTweetIds' = MarkProcessed(processedTweetIds, tweets)
  /\ reaccumulated' = reaccumulated \cup
       (IdsOf(tweets) \cap (accumulated \ IdsOf(passes[p].allTweets)))
  /\ accumulated' = accumulated \cup IdsOf(tweets)

FetchFailedRejects(p, l) ==
  /\ passes' = [passes EXCEPT ![p].pc = "rejected", ![p].reason = "fetch",
                              ![p].failed = @ \cup {l}]
  /\ UNCHANGED << processedTweetIds, reaccumulated, accumulated >>

\* the catch of fetchListTweets (the scraper or transformTweet threw): the
\* failure is logged and the list yields []
FetchFailed(p, l) ==
  /\ passes' = [passes EXCEPT ![p] =
       AfterList([@ EXCEPT !.filtered = << >>, !.j = 0, !.failed = @ \cup {l}])]
  /\ UNCHANGED << processedTweetIds, reaccumulated, accumulated >>

\* A timer tick, the warm-up timeout or a manual trigger (POST /update, the
\* UPDATE_RSS_FEED action) calls processAllLists
ProcessAll(p, trig) ==
  /\ Alive
  /\ passes[p].pc = "idle"
  /\ \A q \in PassIds : SlotBefore(q, p) => passes[q].pc # "idle"
  /\ \/ trig = "timer" /\ schedulerInterval /\ UNCHANGED warmupPending
     \/ trig = "warmup" /\ warmupPending /\ warmupPending' = FALSE
     \/ trig = "manual" /\ Registered /\ UNCHANGED warmupPending
  /\ passes' = [passes EXCEPT ![p] =
       IF AuthRequired
       THEN [IdlePass EXCEPT !.pc = "rejected", !.reason = "auth"]
       ELSE [IdlePass EXCEPT !.pc = "fetch", !.idx = 1,
                             !.afterClean = cleanDone]]
  /\ UNCHANGED << world, authOutcome, phase, lives, pluginConfig, isLoggedIn,
                  schedulerInterval, processedTweetIds, snapshot, feedFile,
                  stopPc, stopSnap, accumulated, reaccumulated, published,
                  cleanDone >>

\* scraper.fetchListTweets returns or throws; the dedup gate; without thread
\* expansion the survivors are accumulated in the same turn
FetchReturn(p) ==
  /\ passes[p].pc = "fetch"
  /\ LET l == twitterLists[passes[p].idx]
         filtered == Unseen(upstream.resp[l], processedTweetIds)
     IN IF l \in upstream.down
        THEN FetchFailed(p, l)
        ELSE IF IsStringTrue("FETCH_TWEET_THREADS") /\ filtered # << >>
        THEN /\ passes' = [passes EXCEPT ![p].filtered = filtered, ![p].j = 1,
                                         ![p].pc = "thread"]
             /\ UNCHANGED << processedTweetIds, reaccumulated, accumulated >>
        ELSE IF MapThrows(filtered) THEN FetchFailed(p, l)
        ELSE Accumulate(p, l, Survivors(filtered, l))
  /\ UNCHANGED << world, req, act, authOutcome, phase, lives, pluginConfig, isLoggedIn,
                  schedulerInterval, warmupPending, snapshot, feedFile,
                  stopPc, stopSnap, published, cleanDone >>

\* what scraper.getTweet does to tweet.thread
Expanded(raw, detail) ==
  IF detail = "thread" THEN [raw EXCEPT !.thread = << "9" >>]
  ELSE IF detail = "bad" THEN [raw EXCEPT !.thread = << "9", NoId >>]
  ELSE raw

\* scraper.getTweet(filtered[j]) returns or throws
ThreadReturn(p) ==
  /\ passes[p].pc = "thread"
  /\ LET l == twitterLists[passes[p].idx]
         j == passes[p].j
         filtered == [passes[p].filtered EXCEPT ![j] = Expanded(@, upstream.detail)]
     IN IF j < Len(filtered)
        THEN /\ passes' = [passes EXCEPT ![p].filtered = filtered, ![p].j = j + 1]
             /\ UNCHANGED << processedTweetIds, reaccumulated, accumulated >>
        ELSE IF MapThrows(filtered) THEN FetchFailed(p, l)
        ELSE Accumulate(p, l, Survivors(filtered, l))
  /\ UNCHANGED << world, req, act, authOutcome, phase, lives, pluginConfig, isLoggedIn,
                  schedulerInterval, warmupPending, snapshot, feedFile,
                  stopPc, stopSnap, published, cleanDone >>

SaveFeedAppends(p, ok) ==
  /\ ok = (disk # "feedFails")
  /\ passes[p].pc = "saveFeed"
  /\ IF ok
     THEN /\ feedFile' = [exists |-> TRUE,
                          items |-> passes[p].doc \o feedFile.items]
          /\ published' = published \cup IdsOf(passes[p].doc)
          /\ passes' = [passes EXCEPT ![p].pc = "saveIds"]
     ELSE /\ passes' = [passes EXCEPT ![p].pc = "rejected", ![p].reason = "saveFeed"]
          /\ UNCHANGED << feedFile, published >>
  /\ UNCHANGED << world, req, act, authOutcome, phase, lives, pluginConfig,
                  isLoggedIn, schedulerInterval, warmupPending,
                  processedTweetIds, snapshot, stopPc, stopSnap, accumulated,
                  reaccumulated, cleanDone >>

\* saveRSSFeed: mkdir and writeFile succeed, or one throws and the pass rejects
SaveFeedDone(p, ok) ==
  /\ ok = (disk # "feedFails")
  /\ passes[p].pc = "saveFeed"
  /\ IF ok
     THEN /\ feedFile' = [exists |-> TRUE, items |-> passes[p].doc]
          /\ published' = published \cup IdsOf(passes[p].doc)
          /\ passes' = [passes EXCEPT ![p].pc = "saveIds"]
     ELSE /\ passes' = [passes EXCEPT ![p].pc = "rejected", ![p].reason = "saveFeed"]
          /\ UNCHANGED << feedFile, published >>
  /\ UNCHANGED << world, req, act, authOutcome, phase, lives, pluginConfig, isLoggedIn,
                  schedulerInterval, warmupPending, processedTweetIds,
                  snapshot, stopPc, stopSnap, accumulated, reaccumulated,
                  cleanDone >>

\* saveProcessedTweetIds: after mkdir, Array.from(this.processedTweetIds)
SaveIdsMkdir(p) ==
  /\ passes[p].pc = "saveIds"
  /\ passes' = [passes EXCEPT ![p].snap = processedTweetIds, ![p].pc = "writeIds"]
  /\ UNCHANGED << world, req, act, authOutcome, phase, lives, pluginConfig, isLoggedIn,
                  schedulerInterval, warmupPending, processedTweetIds,
                  snapshot, feedFile, stopPc, stopSnap, accumulated,
                  reaccumulated, published, cleanDone >>

SaveIdsWritePropagates(p, ok) ==
  /\ ok = (disk # "idsFail")
  /\ passes[p].pc = "writeIds"
  /\ snapshot' = IF ok THEN [exists |-> TRUE, ids |-> passes[p].snap] ELSE snapshot
  /\ passes' = IF ok THEN [passes EXCEPT ![p].snap = {}, ![p].pc = "returned"]
               ELSE [passes EXCEPT ![p].snap = {}, ![p].pc = "rejected",
                                   ![p].reason = "saveIds"]
  /\ cleanDone' = TRUE
  /\ UNCHANGED << world, req, act, authOutcome, phase, lives, pluginConfig,
                  isLoggedIn, schedulerInterval, warmupPending,
                  processedTweetIds, feedFile, stopPc, stopSnap, accumulated,
                  reaccumulated, published >>

\* saveProcessedTweetIds: writeFile ends (a failure is logged), and
\* processAllLists returns {totalTweets, rssPath}
SaveIdsWrite(p, ok) ==
  /\ ok = (disk # "idsFail")
  /\ passes[p].pc = "writeIds"
  /\ snapshot' = IF ok THEN [exists |-> TRUE, ids |-> passes[p].snap] ELSE snapshot
  /\ passes' = [passes EXCEPT ![p].snap = {}, ![p].pc = "returned"]
  /\ cleanDone' = TRUE
  /\ UNCHANGED << world, req, act, authOutcome, phase, lives, pluginConfig, isLoggedIn,
                  schedulerInterval, warmupPending, processedTweetIds,
                  feedFile, stopPc, stopSnap, accumulated, reaccumulated,
                  published >>

\* totalTweets: limitedTweets.length
totalTweets(p) == Len(passes[p].doc)

\* the caller's await ends: the timer callback logs, the route responds
Reap(p) ==
  /\ passes[p].pc \in {"returned", "rejected"}
  /\ passes' = [passes EXCEPT ![p] = IdlePass]
  /\ UNCHANGED << world, authOutcome, phase, lives, pluginConfig, isLoggedIn,
                  schedulerInterval, warmupPending, processedTweetIds,
                  snapshot, feedFile, stopPc, stopSnap, accumulated,
                  reaccumulated, published, cleanDone >>

----------------------------------------------------------------------------
(* Start, stop and restart *)

\* plugin.init(config): the validated (transformed) values are assigned to
\* plugin.config, or a ZodError is logged and plugin.config keeps its strings
PluginInit ==
  /\ phase = "loaded"
  /\ phase' = "configured"
  /\ pluginConfig' = IF schemaValid THEN configSchema(pluginConfig) ELSE pluginConfig
  /\ UNCHANGED << world, req, act, authOutcome, lives, isLoggedIn, schedulerInterval, warmupPending,
                  processedTweetIds, snapshot, feedFile, passes, stopPc,
                  stopSnap, accumulated, reaccumulated, published, cleanDone
                  >>

SchedulerNever(loggedIn) == FALSE

\* startScheduler, line 289: if (!this.isLoggedIn) return
SchedulerStarts(loggedIn) == loggedIn

\* TwitterRSSService.start: constructor and initialize() up to scraper.login;
\* without credentials initialize() returns at once
Initialize(creds) ==
  /\ phase = "configured"
  /\ phase' = IF creds THEN "login" ELSE "started"
  /\ authOutcome' = IF creds THEN authOutcome ELSE "nocreds"
  /\ UNCHANGED << world, req, act, lives, pluginConfig, isLoggedIn, schedulerInterval,
                  warmupPending, processedTweetIds, snapshot, feedFile,
                  passes, stopPc, stopSnap, accumulated, reaccumulated,
                  published, cleanDone >>

LoginAssumed(outcome) == outcome # "throws"

\* this.isLoggedIn after scraper.login and scraper.isLoggedIn: it stays false
\* when one of them throws
LoginSucceeded(outcome) == outcome = "true"

\* scraper.login and scraper.isLoggedIn end: "throws", "false" or "true"
LoginDone(outcome) ==
  /\ phase = "login"
  /\ isLoggedIn' = LoginSucceeded(outcome)
  /\ phase' = IF isLoggedIn' THEN "hydrating" ELSE "started"
  /\ authOutcome' = outcome
  /\ UNCHANGED << world, req, act, lives, pluginConfig, schedulerInterval,
                  warmupPending, processedTweetIds, snapshot, feedFile,
                  passes, stopPc, stopSnap, accumulated, reaccumulated,
                  published, cleanDone >>

\* loadProcessedTweetIds ends (an unreadable file gives the empty set), then
\* startScheduler creates the interval and the warm-up timeout
LoadDone(readable) ==
  /\ phase = "hydrating"
  /\ processedTweetIds' =
       IF readable /\ snapshot.exists THEN snapshot.ids ELSE {}
  /\ schedulerInterval' = SchedulerStarts(isLoggedIn)
  /\ warmupPending' = SchedulerStarts(isLoggedIn)
  /\ phase' = "started"
  /\ UNCHANGED << world, req, act, authOutcome, lives, pluginConfig, isLoggedIn, snapshot, feedFile,
                  passes, stopPc, stopSnap, accumulated, reaccumulated,
                  published, cleanDone >>

\* stop(): clearInterval, then saveProcessedTweetIds up to its mkdir
Stop ==
  /\ Registered
  /\ stopPc = "no"
  /\ schedulerInterval' = FALSE
  /\ stopPc' = "mkdir"
  /\ UNCHANGED << world, req, act, authOutcome, phase, lives, pluginConfig, isLoggedIn,
                  warmupPending, processedTweetIds, snapshot, feedFile,
                  passes, stopSnap, accumulated, reaccumulated, published,
                  cleanDone >>

StopMkdir ==
  /\ stopPc = "mkdir"
  /\ stopSnap' = processedTweetIds
  /\ stopPc' = "write"
  /\ UNCHANGED << world, req, act, authOutcome, phase, lives, pluginConfig, isLoggedIn,
                  schedulerInterval, warmupPending, processedTweetIds,
                  snapshot, feedFile, passes, accumulated, reaccumulated,
                  published, cleanDone >>

StopWrite(ok) ==
  /\ ok = (disk # "idsFail")
  /\ stopPc = "write"
  /\ snapshot' = IF ok THEN [exists |-> TRUE, ids |-> stopSnap] ELSE snapshot
  /\ stopSnap' = {}
  /\ stopPc' = "done"
  /\ UNCHANGED << world, req, act, authOutcome, phase, lives, pluginConfig, isLoggedIn,
                  schedulerInterval, warmupPending, processedTweetIds,
                  feedFile, passes, accumulated, reaccumulated, published,
                  cleanDone >>

\* setupGracefulShutdown: after the stops, process.exit(0); the files stay
Exit ==
  /\ stopPc = "done"
  /\ Registered
  /\ phase' = "exited"
  /\ authOutcome' = "none"
  /\ isLoggedIn' = FALSE
  /\ schedulerInterval' = FALSE
  /\ warmupPending' = FALSE
  /\ processedTweetIds' = {}
  /\ passes' = [p \in PassIds |-> IdlePass]
  /\ stopPc' = "no"
  /\ accumulated' = {}
  /\ reaccumulated' = {}
  /\ cleanDone' = FALSE
  /\ UNCHANGED << world, req, act, lives, pluginConfig, snapshot, feedFile, stopSnap,
                  published >>

\* the process is started again: the module is loaded anew
Restart ==
  /\ phase = "exited"
  /\ lives < MaxLives
  /\ lives' = lives + 1
  /\ phase' = "loaded"
  /\ pluginConfig' = LoadedConfig(env)
  /\ UNCHANGED << world, req, act, authOutcome, isLoggedIn, schedulerInterval, warmupPending,
                  processedTweetIds, snapshot, feedFile, passes, stopPc,
                  stopSnap, accumulated, reaccumulated, published, cleanDone
                  >>

----------------------------------------------------------------------------
(* The HTTP server (RSSServerService) *)

\* this.apiToken is undefined: RSS_API_TOKEN is not configured
NoToken == ""

\* no request is being handled
IdleReq ==
  [pc |-> "idle", method |-> "", path |-> "", auth |-> << >>, status |-> 0,
   body |-> "", doc |-> << >>, totalTweets |-> 0, error |-> "",
   pass |-> "", calls |-> 0, responses |-> 0]

\* The requests sent: the Authorization header is the sequence of its words
\* (<< >> when the header is absent)
Methods == {"GET", "POST"}
Paths ==
  {"/health", "/rss", "/update", "/status", "/twitter_lists.xml",
   "/processed_tweets.json", "/nothing"}
Headers == {<< >>, <<"Bearer", "good">>, <<"good">>, <<"Bearer", "bad">>}
Tokens == {NoToken, "good"}

\* everything but the server's request
service ==
  << phase, authOutcome, lives, pluginConfig, isLoggedIn, schedulerInterval,
     warmupPending, processedTweetIds, snapshot, feedFile, passes, stopPc,
     stopSnap, accumulated, reaccumulated, published, cleanDone, act >>

\* auth.replace('Bearer ', ''): the first "Bearer " is removed
RECURSIVE StripBearer(_)
StripBearer(h) ==
  IF Len(h) < 2 THEN h
  ELSE IF Head(h) = "Bearer" THEN Tail(h)
  ELSE << Head(h) >> \o StripBearer(Tail(h))

\* token === this.apiToken
TokenMatches(h) == StripBearer(h) = << apiToken >>

\* the files of the output directory that express.static(outDir) finds
StaticFile(path) ==
  IF path = "/twitter_lists.xml" /\ feedFile.exists THEN "feed"
  ELSE IF path = "/processed_tweets.json" /\ snapshot.exists THEN "snapshot"
  ELSE ""

\* express.static answers a GET for an existing file, else calls next()
StaticServes == req.method = "GET" /\ StaticFile(req.path) # ""

\* the gate: if (!this.apiToken || req.path === '/health') return next()
GateOpen ==
  apiToken = NoToken \/ req.path = "/health" \/ TokenMatches(req.auth)

\* the request reaches the route of method m and path
Routed(m, path) ==
  /\ req.pc = "static"
  /\ ~StaticServes
  /\ GateOpen
  /\ req.method = m
  /\ req.path = path

Routes ==
  {<<"GET", "/rss">>, <<"POST", "/update">>, <<"GET", "/status">>,
   <<"GET", "/health">>}

Respond(r, status, body) ==
  [r EXCEPT !.pc = "done", !.status = status, !.body = body,
            !.responses = @ + 1]

\* a request arrives
Arrive(m, path, h) ==
  /\ req.pc = "idle"
  /\ act.pc = "idle"
  /\ Alive
  /\ req' = [IdleReq EXCEPT !.pc = "static", !.method = m, !.path = path,
                            !.auth = h]
  /\ UNCHANGED << world, service >>

\* express.static(outDir), registered before the gate, sends the file
ServeStatic ==
  /\ req.pc = "static"
  /\ StaticServes
  /\ req' = Respond(req, 200, StaticFile(req.path))
  /\ UNCHANGED << world, service >>

\* the gate: res.status(401).json({ error: 'Unauthorized' })
Unauthorized ==
  /\ req.pc = "static"
  /\ ~StaticServes
  /\ ~GateOpen
  /\ req' = Respond(req, 401, "Unauthorized")
  /\ UNCHANGED << world, service >>

GetHealthClears ==
  /\ Routed("GET", "/health")
  /\ req' = Respond(req, 200, "healthy")
  /\ processedTweetIds' = {}
  /\ UNCHANGED << world, act, phase, authOutcome, lives, pluginConfig,
                  isLoggedIn, schedulerInterval, warmupPending, snapshot,
                  feedFile, passes, stopPc, stopSnap, accumulated,
                  reaccumulated, published, cleanDone >>

\* GET /health
GetHealth ==
  /\ Routed("GET", "/health")
  /\ req' = Respond(req, 200, "healthy")
  /\ UNCHANGED << world, service >>

\* GET /rss up to fs.readFile
GetRss ==
  /\ Routed("GET", "/rss")
  /\ req' = [req EXCEPT !.pc = "readFile"]
  /\ UNCHANGED << world, service >>

\* GET /rss: readFile ends, the content is sent or 404
RssRead ==
  /\ req.pc = "readFile"
  /\ req' = IF feedFile.exists
            THEN [Respond(req, 200, "feed") EXCEPT !.doc = feedFile.items]
            ELSE Respond(req, 404, "RSS feed not found")
  /\ UNCHANGED << world, service >>

\* saveRSSFeed of a pass is writing the file: fs.writeFile has truncated it
\* and not yet written all of rssXML
FeedBeingWritten ==
  \E p \in PassIds : passes[p].pc = "saveFeed" /\ disk # "feedFails"

\* GET /rss: readFile runs while fs.writeFile of a pass is under way and
\* reads what the file holds then, a part of the new document (the write
\* overwrites in place, without a temporary file and a rename)
RssReadTorn ==
  /\ req.pc = "readFile"
  /\ FeedBeingWritten
  /\ req' = Respond(req, 200, "partial")
  /\ UNCHANGED << world, service >>

\* GET /status up to fs.stat
GetStatus ==
  /\ Routed("GET", "/status")
  /\ req' = [req EXCEPT !.pc = "stat"]
  /\ UNCHANGED << world, service >>

StatusDone ==
  /\ req.pc = "stat"
  /\ req' = Respond(req, 200, "running")
  /\ UNCHANGED << world, service >>

\* POST /update: runtime.getService finds the service, processAllLists is
\* called and awaited
PostUpdate(p) ==
  /\ Routed("POST", "/update")
  /\ Registered
  /\ ProcessAll(p, "manual")
  /\ req' = [req EXCEPT !.pc = "await", !.pass = p, !.calls = @ + 1]
  /\ UNCHANGED act

\* POST /update: no service, throw new Error('Twitter RSS service not
\* available'), caught: res.status(500)
PostUpdateUnavailable ==
  /\ Routed("POST", "/update")
  /\ ~Registered
  /\ req' = [Respond(req, 500, "failed") EXCEPT !.error = "unavailable"]
  /\ UNCHANGED << world, service >>

PostUpdateAlwaysOk ==
  /\ req.pc = "await"
  /\ passes[req.pass].pc \in {"returned", "rejected"}
  /\ req' = [Respond(req, 200, "updated") EXCEPT
               !.totalTweets = totalTweets(req.pass)]
  /\ Reap(req.pass)
  /\ UNCHANGED act

\* POST /update: the await ends: res.json({success: true, totalTweets,
\* rssPath, ...}) or the catch: res.status(500).json({success: false, error})
PostUpdateRespond ==
  /\ req.pc = "await"
  /\ passes[req.pass].pc \in {"returned", "rejected"}
  /\ req' = IF passes[req.pass].pc = "returned"
            THEN [Respond(req, 200, "updated") EXCEPT
                    !.totalTweets = totalTweets(req.pass)]
            ELSE [Respond(req, 500, "failed") EXCEPT
                    !.error = passes[req.pass].reason]
  /\ Reap(req.pass)
  /\ UNCHANGED act

\* no route matches: the 404 of express
NoRoute ==
  /\ req.pc = "static"
  /\ ~StaticServes
  /\ GateOpen
  /\ << req.method, req.path >> \notin Routes
  /\ req' = Respond(req, 404, "Cannot")
  /\ UNCHANGED << world, service >>

\* the response has gone; the server takes the next request
Finish ==
  /\ req.pc = "done"
  /\ req' = IdleReq
  /\ UNCHANGED << world, service >>

\* the callers of processAllLists other than the route
Awaited(p) == req.pc = "await" /\ req.pass = p

----------------------------------------------------------------------------
(* The actions and the provider *)

\* no handler is running
IdleAct ==
  [name |-> "", pc |-> "idle", pass |-> "", calls |-> 0, callbacks |-> 0,
   content |-> "", propagated |-> FALSE]

\* the aggregator's state and files
core ==
  << phase, authOutcome, lives, pluginConfig, isLoggedIn, schedulerInterval,
     warmupPending, processedTweetIds, snapshot, feedFile, passes, stopPc,
     stopSnap, accumulated, reaccumulated, published, cleanDone >>

\* await callback(content) is reached
InvokeCallback(a, content) ==
  [a EXCEPT !.pc = "callback", !.content = content, !.callbacks = @ + 1]

\* the call of processAllLists that the UPDATE_RSS_FEED handler awaits
ActAwaited(p) == act.pc = "await" /\ act.pass = p

\* UPDATE_RSS_FEED handler: runtime.getService finds the service,
\* processAllLists is called and awaited
UpdateRSS(p) ==
  /\ act.pc = "idle"
  /\ Registered
  /\ ProcessAll(p, "manual")
  /\ act' = [IdleAct EXCEPT !.name = "UPDATE_RSS_FEED", !.pc = "await",
                            !.pass = p, !.calls = 1]
  /\ UNCHANGED req

\* UPDATE_RSS_FEED handler: no service, the throw is caught and errorContent
\* goes to the callback
UpdateRSSUnavailable ==
  /\ act.pc = "idle"
  /\ Alive
  /\ ~Registered
  /\ act' = InvokeCallback([IdleAct EXCEPT !.name = "UPDATE_RSS_FEED"],
                           "failure")
  /\ UNCHANGED << world, core, req >>

\* UPDATE_RSS_FEED handler: the await ends; responseContent, or from the
\* catch errorContent, goes to the callback
UpdateRSSSettled ==
  /\ act.pc = "await"
  /\ passes[act.pass].pc \in {"returned", "rejected"}
  /\ act' = InvokeCallback(act, IF passes[act.pass].pc = "returned"
                                THEN "success" ELSE "failure")
  /\ Reap(act.pass)
  /\ UNCHANGED req

\* await callback(...) ends. Both awaits of the UPDATE_RSS_FEED and
\* GET_RSS_STATUS handlers have this shape: the callback of responseContent
\* is inside the try, so its failure reaches the catch, which calls the
\* callback again with errorContent; a failure of that call leaves the
\* handler as its rejection
CallbackReturns(ok) ==
  /\ act.pc = "callback"
  /\ act' = IF ok THEN [act EXCEPT !.pc = "done"]
            ELSE IF act.content = "success" THEN InvokeCallback(act, "failure")
            ELSE [act EXCEPT !.pc = "done", !.propagated = TRUE]
  /\ UNCHANGED << world, core, req >>

\* GET_RSS_STATUS handler: this.getConfig is called in an arrow function of
\* the module, where this is not the service: the TypeError is caught and
\* errorContent goes to the callback
GetRSSStatus ==
  /\ act.pc = "idle"
  /\ Alive
  /\ act' = InvokeCallback([IdleAct EXCEPT !.name = "GET_RSS_STATUS"],
                           "failure")
  /\ UNCHANGED << world, core, req >>

\* twitterListProvider.get: the lists and the interval of the configuration
ProviderGet ==
  /\ act.pc = "idle"
  /\ Alive
  /\ act' = [IdleAct EXCEPT !.name = "TWITTER_LIST_PROVIDER", !.pc = "done",
                            !.content = "lists"]
  /\ UNCHANGED << world, core, req >>

\* the handler has returned
ActFinish ==
  /\ act.pc = "done"
  /\ act' = IdleAct
  /\ UNCHANGED << world, core, req >>

----------------------------------------------------------------------------
(* Rendering and filtering of one item *)

NoSample == [pc |-> "none"]

\* text.substring(0, 100) and text.length > 100
TitleCut == 100

\* a text of n characters, and the handles tried
Body(n) == [i \in 1..n |-> "x"]
Handles == {<< "a" >>, << "b", "o", "b" >>}

\* transformToRSSItem, title:
\* `@${username}: ${text.substring(0, 100)}${text.length > 100 ? '...' : ''}`
Title(username, text) ==
  << "@" >> \o username \o << ":", " " >>
    \o SubSeq(text, 1, IF Len(text) < TitleCut THEN Len(text) ELSE TitleCut)
    \o (IF Len(text) > TitleCut THEN << ".", ".", "." >> ELSE << >>)

\* everything but the sample
rest ==
  << env, runtimeSees, schemaValid, upstream, disk, apiToken, req, service >>

\* an item of a list response is normalised: transformTweet
TakeSample(username, n, reply, rt) ==
  /\ sample.pc = "none"
  /\ sample' = [pc |-> "tweet", username |-> username, text |-> Body(n),
                tweet |-> transformTweet(Raw("1", 1, reply, rt, n, << >>), "A"),
                title |-> << >>, keep |-> "unset"]
  /\ UNCHANGED rest

\* filtered.map(transformTweet).filter(applyFilters): the filter on the item
ApplyFilters ==
  /\ sample.pc = "tweet"
  /\ sample' = [sample EXCEPT !.pc = "filtered",
                  !.keep = IF applyFilters(sample.tweet) THEN "yes" ELSE "no"]
  /\ UNCHANGED rest

\* generateRSSFeed: tweets.map(transformToRSSItem) on the items kept
TransformToRSSItem ==
  /\ sample.pc = "filtered"
  /\ sample.keep = "yes"
  /\ sample' = [sample EXCEPT !.pc = "item",
                  !.title = Title(sample.username, sample.text)]
  /\ UNCHANGED rest

\* the next item
NextSample ==
  /\ sample.pc \in {"filtered", "item"}
  /\ sample' = NoSample
  /\ UNCHANGED rest

----------------------------------------------------------------------------

Init ==
  /\ phase = "loaded"
  /\ authOutcome = "none"
  /\ lives = 1
  /\ \E run \in Runs :
       /\ env = run.env
       /\ runtimeSees = run.runtimeSees
       /\ schemaValid = run.schemaValid
       /\ upstream = run.upstream
       /\ disk = run.disk
  /\ pluginConfig = LoadedConfig(env)
  /\ isLoggedIn = FALSE
  /\ schedulerInterval = FALSE
  /\ warmupPending = FALSE
  /\ processedTweetIds = {}
  /\ snapshot = [exists |-> FALSE, ids |-> {}]
  /\ feedFile = [exists |-> FALSE, items |-> << >>]
  /\ passes = [p \in PassIds |-> IdlePass]
  /\ stopPc = "no"
  /\ stopSnap = {}
  /\ accumulated = {}
  /\ reaccumulated = {}
  /\ published = {}
  /\ cleanDone = FALSE
  /\ apiToken = NoToken
  /\ req = IdleReq
  /\ sample = NoSample
  /\ act = IdleAct

Next ==
  \/ PluginInit
  \/ \E creds \in BOOLEAN : Initialize(creds)
  \/ \E outcome \in {"throws", "false", "true"} : LoginDone(outcome)
  \/ \E readable \in BOOLEAN : LoadDone(readable)
  \/ \E p \in PassIds, trig \in {"timer", "warmup", "manual"} :
       ProcessAll(p, trig) /\ UNCHANGED << req, act >>
  \/ \E p \in PassIds : FetchReturn(p)
  \/ \E p \in PassIds : ThreadReturn(p)
  \/ \E p \in PassIds, ok \in BOOLEAN : SaveFeedDone(p, ok)
  \/ \E p \in PassIds : SaveIdsMkdir(p)
  \/ \E p \in PassIds, ok \in BOOLEAN : SaveIdsWrite(p, ok)
  \/ \E p \in PassIds : Reap(p) /\ UNCHANGED << req, act >>
  \/ Stop
  \/ StopMkdir
  \/ \E ok \in BOOLEAN : StopWrite(ok)
  \/ Exit
  \/ Restart

Spec == Init /\ [][Next]_vars

\* The server and the aggregator of one process lifetime, with the API
\* token set or not
InitHttp ==
  /\ phase = "loaded"
  /\ authOutcome = "none"
  /\ lives = 1
  /\ \E run \in HttpRuns :
       /\ env = run.env
       /\ runtimeSees = run.runtimeSees
       /\ schemaValid = run.schemaValid
       /\ upstream = run.upstream
       /\ disk = run.disk
  /\ pluginConfig = LoadedConfig(env)
  /\ isLoggedIn = FALSE
  /\ schedulerInterval = FALSE
  /\ warmupPending = FALSE
  /\ processedTweetIds = {}
  /\ snapshot = [exists |-> FALSE, ids |-> {}]
  /\ feedFile = [exists |-> FALSE, items |-> << >>]
  /\ passes = [p \in PassIds |-> IdlePass]
  /\ stopPc = "no"
  /\ stopSnap = {}
  /\ accumulated = {}
  /\ reaccumulated = {}
  /\ published = {}
  /\ cleanDone = FALSE
  /\ apiToken \in Tokens
  /\ req = IdleReq
  /\ sample = NoSample
  /\ act = IdleAct

NextHttp ==
  \/ PluginInit
  \/ \E creds \in BOOLEAN : Initialize(creds)
  \/ \E outcome \in {"throws", "false", "true"} : LoginDone(outcome)
  \/ \E readable \in BOOLEAN : LoadDone(readable)
  \/ \E p \in PassIds : ProcessAll(p, "warmup") /\ UNCHANGED << req, act >>
  \/ \E p \in PassIds : FetchReturn(p)
  \/ \E p \in PassIds : ThreadReturn(p)
  \/ \E p \in PassIds, ok \in BOOLEAN : SaveFeedDone(p, ok)
  \/ \E p \in PassIds : SaveIdsMkdir(p)
  \/ \E p \in PassIds, ok \in BOOLEAN : SaveIdsWrite(p, ok)
  \/ \E p \in PassIds : ~Awaited(p) /\ Reap(p) /\ UNCHANGED << req, act >>
  \/ \E m \in Methods, path \in Paths, h \in Headers : Arrive(m, path, h)
  \/ ServeStatic
  \/ Unauthorized
  \/ GetHealth
  \/ GetRss
  \/ RssRead
  \/ RssReadTorn
  \/ GetStatus
  \/ StatusDone
  \/ \E p \in PassIds : PostUpdate(p)
  \/ PostUpdateUnavailable
  \/ PostUpdateRespond
  \/ NoRoute
  \/ Finish
  \/ req.pc = "idle" /\ GetRSSStatus
  \/ req.pc = "idle" /\ ProviderGet
  \/ \E ok \in BOOLEAN : CallbackReturns(ok)
  \/ ActFinish

SpecHttp == InitHttp /\ [][NextHttp]_vars

\* The action handlers beside the aggregator of one process lifetime
InitAct == InitHttp /\ apiToken = NoToken

NextAct ==
  \/ PluginInit
  \/ \E creds \in BOOLEAN : Initialize(creds)
  \/ \E outcome \in {"throws", "false", "true"} : LoginDone(outcome)
  \/ \E readable \in BOOLEAN : LoadDone(readable)
  \/ \E p \in PassIds : ProcessAll(p, "warmup") /\ UNCHANGED << req, act >>
  \/ \E p \in PassIds : FetchReturn(p)
  \/ \E p \in PassIds : ThreadReturn(p)
  \/ \E p \in PassIds, ok \in BOOLEAN : SaveFeedDone(p, ok)
  \/ \E p \in PassIds : SaveIdsMkdir(p)
  \/ \E p \in PassIds, ok \in BOOLEAN : SaveIdsWrite(p, ok)
  \/ \E p \in PassIds : ~ActAwaited(p) /\ Reap(p) /\ UNCHANGED << req, act >>
  \/ \E p \in PassIds : UpdateRSS(p)
  \/ UpdateRSSUnavailable
  \/ UpdateRSSSettled
  \/ \E ok \in BOOLEAN : CallbackReturns(ok)
  \/ GetRSSStatus
  \/ ProviderGet
  \/ ActFinish

SpecAct == InitAct /\ [][NextAct]_vars

\* The scheduler and its passes in one process lifetime, left to run: the
\* interval and the warm-up timeout are the only callers of processAllLists
InitLive ==
  /\ phase = "loaded"
  /\ authOutcome = "none"
  /\ lives = 1
  /\ \E run \in LiveRuns :
       /\ env = run.env
       /\ runtimeSees = run.runtimeSees
       /\ schemaValid = run.schemaValid
       /\ upstream = run.upstream
       /\ disk = run.disk
  /\ pluginConfig = LoadedConfig(env)
  /\ isLoggedIn = FALSE
  /\ schedulerInterval = FALSE
  /\ warmupPending = FALSE
  /\ processedTweetIds = {}
  /\ snapshot = [exists |-> FALSE, ids |-> {}]
  /\ feedFile = [exists |-> FALSE, items |-> << >>]
  /\ passes = [p \in PassIds |-> IdlePass]
  /\ stopPc = "no"
  /\ stopSnap = {}
  /\ accumulated = {}
  /\ reaccumulated = {}
  /\ published = {}
  /\ cleanDone = FALSE
  /\ apiToken = NoToken
  /\ req = IdleReq
  /\ sample = NoSample
  /\ act = IdleAct

NextLive ==
  \/ PluginInit
  \/ \E creds \in BOOLEAN : Initialize(creds)
  \/ \E outcome \in {"throws", "false", "true"} : LoginDone(outcome)
  \/ \E readable \in BOOLEAN : LoadDone(readable)
  \/ \E p \in PassIds, trig \in {"timer", "warmup"} :
       ProcessAll(p, trig) /\ UNCHANGED << req, act >>
  \/ \E p \in PassIds : FetchReturn(p)
  \/ \E p \in PassIds : ThreadReturn(p)
  \/ \E p \in PassIds, ok \in BOOLEAN : SaveFeedDone(p, ok)
  \/ \E p \in PassIds : SaveIdsMkdir(p)
  \/ \E p \in PassIds, ok \in BOOLEAN : SaveIdsWrite(p, ok)
  \/ \E p \in PassIds : Reap(p) /\ UNCHANGED << req, act >>
  \/ Stop
  \/ StopMkdir
  \/ \E ok \in BOOLEAN : StopWrite(ok)

\* The event loop runs every continuation whose awaited operation has ended,
\* and the scraper's calls and the file operations end (with a value or an
\* error): weak fairness of the steps of a pass. It runs every timer that is
\* due, however many passes are under way; here a call needs one of the
\* slots of PassIds, which the other timer may hold at times, so that the
\* timers get strong fairness.
FairLive ==
  /\ \A p \in PassIds :
       /\ WF_vars(FetchReturn(p))
       /\ WF_vars(ThreadReturn(p))
       /\ WF_vars(\E ok \in BOOLEAN : SaveFeedDone(p, ok))
       /\ WF_vars(SaveIdsMkdir(p))
       /\ WF_vars(\E ok \in BOOLEAN : SaveIdsWrite(p, ok))
       /\ WF_vars(Reap(p) /\ UNCHANGED << req, act >>)
  /\ SF_vars(\E p \in PassIds : ProcessAll(p, "warmup") /\ UNCHANGED << req, act >>)
  /\ SF_vars(\E p \in PassIds : ProcessAll(p, "timer") /\ UNCHANGED << req, act >>)

SpecLive == InitLive /\ [][NextLive]_vars /\ FairLive

\* One item through the filter chain and the renderer, in a service that
\* has started and authenticated, for every deployment
InitItem ==
  /\ phase = "started"
  /\ authOutcome = "true"
  /\ lives = 1
  /\ \E run \in Runs :
       /\ env = run.env
       /\ runtimeSees = run.runtimeSees
       /\ schemaValid = run.schemaValid
       /\ upstream = run.upstream
       /\ disk = run.disk
  /\ pluginConfig =
       IF schemaValid THEN configSchema(LoadedConfig(env))
       ELSE LoadedConfig(env)
  /\ isLoggedIn = TRUE
  /\ schedulerInterval = TRUE
  /\ warmupPending = TRUE
  /\ processedTweetIds = {}
  /\ snapshot = [exists |-> FALSE, ids |-> {}]
  /\ feedFile = [exists |-> FALSE, items |-> << >>]
  /\ passes = [p \in PassIds |-> IdlePass]
  /\ stopPc = "no"
  /\ stopSnap = {}
  /\ accumulated = {}
  /\ reaccumulated = {}
  /\ published = {}
  /\ cleanDone = FALSE
  /\ apiToken = NoToken
  /\ req = IdleReq
  /\ sample = NoSample
  /\ act = IdleAct

NextItem ==
  \/ \E username \in Handles, n \in 0..MaxBody, reply \in BOOLEAN,
        rt \in BOOLEAN : TakeSample(username, n, reply, rt)
  \/ ApplyFilters
  \/ TransformToRSSItem
  \/ NextSample

SpecItem == InitItem /\ [][NextItem]_vars

----------------------------------------------------------------------------
(* The properties *)

\* the pass has sorted and capped: its document is in doc
DocPcs == {"saveFeed", "saveIds", "writeIds", "returned"}
HasDoc(p) ==
  \/ passes[p].pc \in DocPcs
  \/ passes[p].pc = "rejected" /\ passes[p].reason = "saveFeed"

Quiet == (\A p \in PassIds : passes[p].pc = "idle") /\ stopPc \in {"no", "done"}

Min(a, b) == IF a < b THEN a ELSE b

\* the step in which saveRSSFeed of pass p has written the file
SaveStepOf(p) == passes[p].pc = "saveFeed" /\ passes'[p].pc = "saveIds"

\* C1: at any time at most one call of processAllLists has started and not
\* yet returned or rejected, whatever triggers (timer tick, warm-up, manual
\* trigger) occur meanwhile.
AtMostOnePassInFlight ==
  Cardinality({p \in PassIds : InFlight(p)}) <= 1

\* C2: within one lifetime no identifier is accumulated by two passes: once
\* a pass has accumulated it, no other pass accumulates it.
NoIdentifierAccumulatedTwice == reaccumulated = {}

\* C3: a pass that starts after another pass of the lifetime has returned,
\* on the same upstream content and configuration, accumulates nothing and
\* its document (hence its count) is empty.
SecondPassAccumulatesNothing ==
  \A p \in PassIds :
    passes[p].afterClean =>
      /\ passes[p].allTweets = << >>
      /\ passes[p].doc = << >>
      /\ passes[p].pc = "returned" => totalTweets(p) = 0

SecondPassReturned ==
  \E p \in PassIds :
    /\ passes[p].pc = "returned"
    /\ passes[p].afterClean
    /\ accumulated # {}
    /\ passes[p].fetched # {}

\* C4: every identifier once written to the dedup snapshot is still in the
\* snapshot after every later write of it, across restarts with successful
\* or failed authentication.
SnapshotKeepsHistory == [][snapshot.ids \subseteq snapshot'.ids]_vars

\* C5: every identifier in the dedup store (the set in memory and the
\* snapshot) belongs to an item that was in a persisted feed document; stated
\* for the states in which no pass and no stop() is under way.
DedupStoreOnlyPublished ==
  Quiet => (processedTweetIds \cup snapshot.ids) \subseteq published

\* C6: a failure while fetching a list never makes the pass reject: the list
\* contributes no item, every other list is fetched, and the count is the
\* number of items emitted, all of them from the lists that did not fail.
FetchFailureContained ==
  \A p \in PassIds :
    /\ passes[p].reason \in {"none", "auth", "saveFeed"}
    /\ HasDoc(p) =>
         /\ passes[p].failed \cup passes[p].fetched = ListIds
         /\ passes[p].failed \cap passes[p].fetched = {}
         /\ \A i \in 1..Len(passes[p].allTweets) :
              passes[p].allTweets[i].list \in passes[p].fetched
         /\ \A i \in 1..Len(passes[p].doc) :
              passes[p].doc[i].list \notin passes[p].failed
         /\ totalTweets(p) = Min(Len(passes[p].allTweets), maxEntries)

ThreeFromAWhileBFails ==
  \E p \in PassIds :
    /\ passes[p].pc = "returned"
    /\ passes[p].failed = {"B"}
    /\ totalTweets(p) = 3

\* C7: the document of a pass holds exactly the min(n, maxEntries) most
\* recent of the n accumulated items, most recent first, items of equal
\* createdAt in the order of accumulation.
Rank(a, i) ==
  1 + Cardinality({j \in 1..Len(a) :
        \/ a[j].createdAt > a[i].createdAt
        \/ a[j].createdAt = a[i].createdAt /\ j < i})

MostRecentFirst(a, k) ==
  [r \in 1..Min(Len(a), k) |-> a[CHOOSE i \in 1..Len(a) : Rank(a, i) = r]]

FeedIsMostRecentCapped ==
  \A p \in PassIds :
    HasDoc(p) =>
      /\ Len(passes[p].doc) = Min(Len(passes[p].allTweets), maxEntries)
      /\ \A r \in 1..Len(passes[p].doc) :
           passes[p].doc[r] = MostRecentFirst(passes[p].allTweets, maxEntries)[r]

CappedWithTie ==
  \E p \in PassIds :
    /\ passes[p].pc = "returned"
    /\ Len(passes[p].allTweets) > maxEntries
    /\ Len(passes[p].doc) = 2
    /\ passes[p].doc[1].createdAt = passes[p].doc[2].createdAt
    /\ passes[p].allTweets[1].createdAt < passes[p].doc[1].createdAt

\* C8: while the service has not authenticated, every call of
\* processAllLists rejects with the authentication error and changes nothing:
\* no list is fetched, the dedup store, the snapshot and the feed file stay.
UnauthenticatedCallRejects ==
  /\ [](~isLoggedIn => \A p \in PassIds : ~InFlight(p))
  /\ [][\A p \in PassIds :
          (~isLoggedIn /\ passes[p].pc = "idle" /\ passes'[p].pc # "idle") =>
            /\ passes'[p].pc = "rejected"
            /\ passes'[p].reason = "auth"
            /\ UNCHANGED << processedTweetIds, snapshot, feedFile,
                            isLoggedIn, published, accumulated >>]_vars

RejectedUnauthenticated ==
  \E p \in PassIds :
    ~isLoggedIn /\ passes[p].pc = "rejected" /\ passes[p].reason = "auth"

\* C9: Disabled is absorbing: after a failed authentication start has
\* returned a live service that is not logged in, has neither the timer nor
\* the warm-up task and runs no pass, and it stays so until the process exits.
DisabledIsAbsorbing ==
  /\ [](Disabled =>
          /\ ~isLoggedIn
          /\ ~schedulerInterval
          /\ ~warmupPending
          /\ \A p \in PassIds : ~InFlight(p))
  /\ [][Disabled => (Disabled' \/ phase' = "exited")]_vars

DisabledAndCalled ==
  /\ Disabled
  /\ authOutcome = "false"
  /\ \E p \in PassIds : passes[p].pc = "rejected"

\* C10: with reply exclusion configured (FILTER_REPLIES=true), no persisted
\* feed document has an item whose reply flag is true; likewise for
\* retweets with FILTER_RETWEETS=true.
ExclusionRespected ==
  /\ env.FILTER_REPLIES = "true" =>
       \A i \in 1..Len(feedFile.items) : ~feedFile.items[i].isReply
  /\ env.FILTER_RETWEETS = "true" =>
       \A i \in 1..Len(feedFile.items) : ~feedFile.items[i].isRetweet

\* C11: with an API token configured, a request to a path other than
\* /health whose Authorization header does not give the token is answered 401
\* with the Unauthorized body and nothing else, so never with the feed
\* document or the dedup snapshot; GET /health is answered healthy.
GateHidesEverything ==
  req.pc = "done" =>
    /\ (apiToken # NoToken /\ req.path # "/health"
          /\ ~TokenMatches(req.auth)) =>
         req.status = 401 /\ req.body = "Unauthorized"
    /\ (req.method = "GET" /\ req.path = "/health") =>
         req.status = 200 /\ req.body = "healthy"

\* C12: once stop() has run, neither the periodic timer nor the warm-up task
\* starts a pass: the timer is cleared, and no call of processAllLists is the
\* firing of the warm-up timeout.
StopCancelsScheduler ==
  /\ [](stopPc # "no" => ~schedulerInterval)
  /\ [][stopPc # "no" =>
          ~(\E p \in PassIds :
              /\ passes[p].pc = "idle"
              /\ passes'[p].pc # "idle"
              /\ warmupPending
              /\ ~warmupPending')]_vars

\* C13: a thread entry without identifier is skipped alone: it never makes
\* the list response of its parent item fail, so a list fails only when its
\* fetch throws.
ThreadEntrySkippedAlone ==
  \A p \in PassIds : passes[p].failed \subseteq upstream.down

\* C14: every item of every document and every member of the dedup store
\* (the set and the snapshot) has a non-empty identifier, and a raw item
\* without identifier does not make its list response fail.
NonEmptyIdentifiers ==
  /\ NoId \notin processedTweetIds \cup snapshot.ids
  /\ \A i \in 1..Len(feedFile.items) : feedFile.items[i].id # NoId
  /\ \A p \in PassIds :
       /\ \A i \in 1..Len(passes[p].allTweets) :
            passes[p].allTweets[i].id # NoId
       /\ \A l \in passes[p].failed :
            \/ l \in upstream.down
            \/ upstream.detail = "bad" /\ IsStringTrue("FETCH_TWEET_THREADS")

ItemWithoutIdDroppedAlone ==
  \E p \in PassIds :
    /\ passes[p].pc = "returned"
    /\ upstream.resp["A"][1].id = NoId
    /\ "A" \in passes[p].fetched
    /\ "1" \in IdsOf(passes[p].doc)
    /\ "1" \in processedTweetIds

FailedSaveKeepsDedupStore ==
  \A p \in PassIds :
    (passes[p].pc = "rejected" /\ passes[p].reason = "saveFeed") =>
      IdsOf(passes[p].allTweets) \cap (processedTweetIds \cup snapshot.ids) = {}

\* C17: a failing write of the dedup snapshot never propagates: the pass
\* returns, with the feed file as it saved it; stop() completes; the set in
\* memory keeps its identifiers.
SnapshotFailureContained ==
  /\ [](\A p \in PassIds : passes[p].reason # "saveIds")
  /\ [][/\ \A p \in PassIds :
             (passes[p].pc = "writeIds" /\ passes'[p].pc # "writeIds"
                /\ phase' # "exited") =>
               /\ passes'[p].pc = "returned"
               /\ passes'[p].doc = passes[p].doc
               /\ feedFile' = feedFile
               /\ processedTweetIds' = processedTweetIds
        /\ (stopPc = "write" /\ stopPc' # "write") =>
               /\ stopPc' = "done"
               /\ processedTweetIds' = processedTweetIds]_vars

SnapshotWriteFailed ==
  /\ disk = "idsFail"
  /\ stopPc = "done"
  /\ ~snapshot.exists
  /\ feedFile.exists
  /\ processedTweetIds # {}
  /\ \E p \in PassIds : passes[p].pc = "returned" /\ totalTweets(p) > 0

\* C20: a POST /update that passes the gate makes one call of
\* processAllLists and gets one response: 200 with the count of the pass when
\* it returns, 500 with the error when it rejects (authentication required
\* included); without the service no call is made and the response is 500.
UpdateAnsweredOnce ==
  /\ [](/\ req.responses <= 1
        /\ req.calls <= 1
        /\ req.pc = "await" => req.calls = 1 /\ req.responses = 0
        /\ (req.pc = "done" /\ req.method = "POST" /\ req.path = "/update"
              /\ req.status # 401) =>
             /\ req.responses = 1
             /\ \/ req.status = 200 /\ req.body = "updated" /\ req.calls = 1
                \/ /\ req.status = 500
                   /\ req.body = "failed"
                   /\ \/ req.error = "unavailable" /\ req.calls = 0
                      \/ req.error \in {"auth", "saveFeed"} /\ req.calls = 1)
  /\ [][(req.pc = "await" /\ req'.pc # "await") =>
          /\ req'.pc = "done"
          /\ passes[req.pass].pc = "returned" =>
               /\ req'.status = 200
               /\ req'.totalTweets = Len(passes[req.pass].doc)
          /\ passes[req.pass].pc = "rejected" =>
               /\ req'.status = 500
               /\ req'.error = passes[req.pass].reason]_vars

UpdateReturnedThree ==
  /\ req.pc = "done"
  /\ req.path = "/update"
  /\ req.status = 200
  /\ req.totalTweets = 3
  /\ apiToken # NoToken

\* C18: the rendered title of an item has at most 103 characters, and for a
\* text of at most 100 characters it is exactly the text, without ellipsis.
TitleWithinLimit ==
  sample.pc = "item" =>
    /\ Len(sample.title) <= 103
    /\ Len(sample.text) <= 100 => sample.title = sample.text

\* C19: applyFilters keeps an item exactly when not (retweets are excluded
\* and it is a retweet) and not (replies are excluded and it is a reply) and
\* its text has at least the configured minimum length, exclusion being what
\* the operator configured (FILTER_RETWEETS=true, FILTER_REPLIES=true).
KeepIsConjunction ==
  sample.pc \in {"filtered", "item"} =>
    (sample.keep = "yes" <=>
       /\ ~(env.FILTER_RETWEETS = "true" /\ sample.tweet.isRetweet)
       /\ ~(env.FILTER_REPLIES = "true" /\ sample.tweet.isReply)
       /\ sample.tweet.len >= env.MIN_TWEET_LENGTH)

\* C21: whatever processAllLists does (returns, rejects, no service), the
\* UPDATE_RSS_FEED handler calls it at most once, invokes the callback
\* exactly once, with the success content when the pass returned and the
\* failure content otherwise, and does not reject.
UpdateActionAnswersOnce ==
  (act.name = "UPDATE_RSS_FEED" /\ act.pc = "done") =>
    /\ act.calls <= 1
    /\ act.callbacks = 1
    /\ ~act.propagated

\* C22: with thread expansion enabled (FETCH_TWEET_THREADS=true), when the
\* list response has items with an identifier that are not in the dedup
\* store, fetchListTweets issues the detail fetches for exactly these items
\* before it returns.
DetailFetchedForEveryUnseen ==
  [][\A p \in PassIds :
       LET l == twitterLists[passes[p].idx]
           unseen == Unseen(upstream.resp[l], processedTweetIds)
       IN (/\ env.FETCH_TWEET_THREADS = "true"
           /\ passes[p].pc = "fetch"
           /\ passes'[p] # passes[p]
           /\ phase' # "exited"
           /\ l \notin upstream.down
           /\ unseen # << >>) =>
            /\ passes'[p].pc = "thread"
            /\ passes'[p].filtered = unseen]_vars

\* C23: a GET /rss that passes the gate is answered 404 with the error body
\* exactly when the feed file does not exist, and else with exactly the
\* document of the last completed save.
FeedRouteServesLatest ==
  [][(req.pc = "readFile" /\ req'.pc = "done") =>
       IF feedFile.exists
       THEN /\ req'.status = 200
            /\ req'.body = "feed"
            /\ req'.doc = feedFile.items
       ELSE /\ req'.status = 404
            /\ req'.body = "RSS feed not found"]_vars

\* a call of processAllLists passes the authentication check
PassStarts ==
  \E p \in PassIds : passes[p].pc = "idle" /\ passes'[p].pc = "fetch"

Settled(p) == passes[p].pc \in {"returned", "rejected"}

\* C24: once the service has authenticated, the warm-up timeout starts a
\* first pass without any trigger from outside, and as long as the service
\* is not stopped the interval starts passes again and again.
SchedulerKeepsStarting ==
  /\ (Ready /\ warmupPending) ~> ~warmupPending
  /\ (<>[](Ready /\ stopPc = "no")) => []<><<PassStarts>>_vars

\* a pass of the interval has started after the warm-up pass completed
TimerPassAfterWarmup ==
  /\ Ready /\ stopPc = "no" /\ ~warmupPending /\ cleanDone
  /\ \E p \in PassIds : passes[p].pc = "fetch"

\* C27: the scraper's calls and the file operations ending, every pass that
\* has started completes, returning or rejecting, whatever lists fail, and
\* its completion leaves the service free for a next call.
EveryPassCompletes ==
  \A p \in PassIds :
    /\ InFlight(p) ~> Settled(p)
    /\ Settled(p) ~> passes[p].pc = "idle"

\* a pass returned although the fetch of one of its lists failed
PassWithFailedListReturned ==
  \E p \in PassIds : passes[p].pc = "returned" /\ passes[p].failed # {}

\* C25: in a pass the lists are taken one after the other in the configured
\* order, what has been accumulated from the lists already taken is marked
\* in the dedup store before the next fetch, and so an identifier that two
\* lists return in the same pass is accumulated from one of them, the first.
ListsOneAtATime ==
  \A p \in PassIds :
    LET pass == passes[p]
        n == Len(pass.allTweets)
    IN /\ pass.pc \in {"fetch", "thread"} =>
            pass.fetched \cup pass.failed =
              {twitterLists[k] : k \in 1..(pass.idx - 1)}
       /\ InFlight(p) => IdsOf(pass.allTweets) \subseteq processedTweetIds
       /\ \A i, j \in 1..n :
            pass.allTweets[i].id = pass.allTweets[j].id =>
              pass.allTweets[i].list = pass.allTweets[j].list

\* both lists returned the identifier "1"; the pass published it from list A
\* beside an item of list B
SharedIdFromFirstList ==
  /\ \A l \in ListIds : \E i \in 1..Len(upstream.resp[l]) :
       upstream.resp[l][i].id = "1"
  /\ \E p \in PassIds :
       /\ passes[p].pc = "returned"
       /\ passes[p].fetched = {"A", "B"}
       /\ \E i, j \in 1..Len(passes[p].allTweets) :
            /\ passes[p].allTweets[i].id = "1"
            /\ passes[p].allTweets[i].list = "A"
            /\ passes[p].allTweets[j].list = "B"

\* C26: a call of processAllLists is made only when start has returned, that
\* is after loadProcessedTweetIds has ended, so that the load never replaces
\* a set in which a pass has marked identifiers.
NoPassBeforeHydration ==
  phase # "started" =>
    /\ \A p \in PassIds : passes[p].pc = "idle"
    /\ accumulated = {}

\* in a second lifetime a pass runs on the set loaded from the snapshot
PassOnHydratedStore ==
  /\ lives = 2
  /\ phase = "started"
  /\ snapshot.ids # {}
  /\ snapshot.ids \subseteq processedTweetIds
  /\ \E p \in PassIds : InFlight(p)

\* C28: while the service is started (the load has ended, the process has
\* not exited), no step takes an identifier out of the in-memory dedup store.
DedupStoreOnlyGrows ==
  [][(phase = "started" /\ phase' = "started") =>
       processedTweetIds \subseteq processedTweetIds']_vars

\* after a rejected pass and stop() the store still holds what was marked
StoreKeptAfterRejectAndStop ==
  /\ phase = "started"
  /\ stopPc = "done"
  /\ processedTweetIds # {}
  /\ accumulated \subseteq processedTweetIds
  /\ \E p \in PassIds :
       passes[p].pc = "rejected" /\ passes[p].reason = "saveFeed"

\* C29: no feed document holds the same identifier in two items.
FeedIdsDistinct ==
  \A i, j \in 1..Len(feedFile.items) :
    i # j => feedFile.items[i].id # feedFile.items[j].id

ReadPaths == {"/rss", "/status", "/health"}
ReadNames == {"GET_RSS_STATUS", "TWITTER_LIST_PROVIDER"}

\* C30: a step of GET /rss, GET /status, GET /health, of the GET_RSS_STATUS
\* action or of the list provider leaves the dedup store, the snapshot
\* file, the feed file and the authentication state as they are, and every
\* step that changes one of them is a step of the service itself, not of a
\* route, an action or the provider.
ReadSurfaceWritesNothing ==
  [][LET r == IF req.pc = "idle" THEN req' ELSE req
         a == IF act.pc = "idle" THEN act' ELSE act
         written == << processedTweetIds, snapshot, feedFile, isLoggedIn,
                       authOutcome >>
     IN /\ (\/ req' # req /\ r.method = "GET" /\ r.path \in ReadPaths
            \/ act' # act /\ a.name \in ReadNames) => UNCHANGED written
        /\ written' # written => (req' = req /\ act' = act)]_vars

\* GET /rss has served the document of a pass that marked identifiers
FeedServedWithStoreFilled ==
  /\ req.pc = "done"
  /\ req.method = "GET"
  /\ req.path = "/rss"
  /\ req.status = 200
  /\ req.doc = feedFile.items
  /\ req.doc # << >>
  /\ processedTweetIds # {}

====
